---- MODULE Spec2Model ----
(***************************************************************************)
(* A model of the reverse proxy with its shared cookie jar (src/main.rs)   *)
(* and of the transaction poller with its ledger file (src/idex.rs).       *)
(*                                                                         *)
(* Text is modelled as a sequence of one-character strings, so that        *)
(* parsing (split, trim, lowercase) and formatting (name=value joined by   *)
(* "; ", decimal rendering of integers) are computed the way the code      *)
(* computes them.                                                          *)
(***************************************************************************)
EXTENDS Integers, Sequences, FiniteSets, TLC

\* ------------------------------------------------------------------------
\* Bounds of the model
\* ------------------------------------------------------------------------

\* Longest list of Set-Cookie headers a single upstream response carries.
MaxSetCookie == 2

\* Longest transactions array a single polled page carries.
MaxPageLen == 2

\* Number of proxy requests that can be in progress at the same time.
NumHandlers == 2

\* ------------------------------------------------------------------------
\* Text helpers (std::str)
\* ------------------------------------------------------------------------

None == "None"

\* A byte outside visible ASCII, as HeaderValue::to_str sees it.
NonAsciiByte == "0xE9"

Whitespace == {" ", "\t"}

UpperAlphabet == <<"A","B","C","D","E","F","G","H","I","J","K","L","M",
                   "N","O","P","Q","R","S","T","U","V","W","X","Y","Z">>

LowerAlphabet == <<"a","b","c","d","e","f","g","h","i","j","k","l","m",
                   "n","o","p","q","r","s","t","u","v","w","x","y","z">>

MinOf(S) == CHOOSE x \in S : \A y \in S : x <= y

MaxOf(S) == CHOOSE x \in S : \A y \in S : y <= x

\* Index of the first occurrence of ch in s, 0 when there is none.
FindChar(s, ch) ==
    LET hits == {i \in 1..Len(s) : s[i] = ch}
    IN  IF hits = {} THEN 0 ELSE MinOf(hits)

\* s.split(ch).next().unwrap_or(""): the text before the first ch.
SplitFirst(s, ch) ==
    LET p == FindChar(s, ch)
    IN  IF p = 0 THEN s ELSE SubSeq(s, 1, p - 1)

\* s.splitn(2, ch).nth(1).unwrap_or(""): the text after the first ch.
SplitRest(s, ch) ==
    LET p == FindChar(s, ch)
    IN  IF p = 0 THEN <<>> ELSE SubSeq(s, p + 1, Len(s))

\* str::trim
Trim(s) ==
    LET keep == {i \in 1..Len(s) : s[i] \notin Whitespace}
    IN  IF keep = {} THEN <<>> ELSE SubSeq(s, MinOf(keep), MaxOf(keep))

LowerChar(c) ==
    IF \E i \in 1..26 : UpperAlphabet[i] = c
    THEN LowerAlphabet[CHOOSE i \in 1..26 : UpperAlphabet[i] = c]
    ELSE c

\* str::to_lowercase
ToLowercase(s) == [i \in 1..Len(s) |-> LowerChar(s[i])]

\* str::contains
Contains(s, sub) ==
    \E i \in 0..(Len(s) - Len(sub)) : SubSeq(s, i + 1, i + Len(sub)) = sub

\* HeaderValue::to_str succeeds on visible ASCII only.
ToStrOk(h) == \A i \in 1..Len(h) : h[i] # NonAsciiByte

RECURSIVE Join(_, _)
\* [String]::join(sep)
Join(parts, sep) ==
    IF parts = <<>> THEN <<>>
    ELSE IF Len(parts) = 1 THEN parts[1]
    ELSE parts[1] \o sep \o Join(Tail(parts), sep)

\* All sequences over S of length at most n.
SeqsUpTo(S, n) == UNION {[1..k -> S] : k \in 0..n}

\* ------------------------------------------------------------------------
\* Cookies and the jar (src/main.rs)
\* ------------------------------------------------------------------------

GatedDomain == "panel.gate.cx"

\* The Set-Cookie parse of update_from_headers: one Cookie from one header.
ParseSetCookie(cookie_str, domain) ==
    LET kv == SplitFirst(cookie_str, ";")
    IN  [ name      |-> Trim(SplitFirst(kv, "=")),
          value     |-> Trim(SplitRest(kv, "=")),
          domain    |-> domain,
          path      |-> "/",
          http_only |-> Contains(ToLowercase(cookie_str),
                                 <<"h","t","t","p","o","n","l","y">>),
          secure    |-> Contains(ToLowercase(cookie_str),
                                 <<"s","e","c","u","r","e">>) ]

\* headers.get_all(SET_COOKIE) ... filter_map(to_str) ... map(parse) ... collect
NewCookies(set_cookie, domain) ==
    LET ok == SelectSeq(set_cookie, ToStrOk)
    IN  [i \in 1..Len(ok) |-> ParseSetCookie(ok[i], domain)]

\* A faulty search that never finds the name.
PositionNotFound(cookies, name) == 0

\* store.cookies.iter().position(|c| c.name == name), 0 for None.
Position(cookies, name) ==
    LET hits == {i \in 1..Len(cookies) : cookies[i].name = name}
    IN  IF hits = {} THEN 0 ELSE MinOf(hits)

\* A faulty turn that takes a cookie of empty value for a deletion, as a
\* browser does, and drops the entry of its name.
MergeOneDeletes(cookies, nc) ==
    IF nc.value = <<>>
    THEN SelectSeq(cookies, LAMBDA c : c.name # nc.name)
    ELSE LET pos == Position(cookies, nc.name)
         IN  IF pos # 0 THEN [cookies EXCEPT ![pos] = nc]
             ELSE Append(cookies, nc)

\* A faulty turn that pushes without looking for the name.
MergeOnePush(cookies, nc) == Append(cookies, nc)

\* A faulty turn that drops the entry of the same name and pushes the new
\* cookie at the end.
MergeOneMoveToEnd(cookies, nc) ==
    Append(SelectSeq(cookies, LAMBDA c : c.name # nc.name), nc)

\* A faulty turn that keeps the entry it finds and drops the new cookie.
MergeOneKeepFirst(cookies, nc) ==
    IF Position(cookies, nc.name) # 0 THEN cookies ELSE Append(cookies, nc)

\* A faulty turn that replaces in place and pushes as well.
MergeOneReplaceAndPush(cookies, nc) ==
    LET pos == Position(cookies, nc.name)
    IN  IF pos # 0 THEN Append([cookies EXCEPT ![pos] = nc], nc)
        ELSE Append(cookies, nc)

\* One turn of the merge loop: replace in place, or push.
MergeOne(cookies, nc) ==
    LET pos == Position(cookies, nc.name)
    IN  IF pos # 0 THEN [cookies EXCEPT ![pos] = nc] ELSE Append(cookies, nc)

RECURSIVE MergeFrom(_, _, _)
\* The merge loop from turn i on: `for nc in new_cookies`, one turn each.
MergeFrom(cookies, new_cookies, i) ==
    IF i > Len(new_cookies) THEN cookies
    ELSE MergeFrom(MergeOne(cookies, new_cookies[i]), new_cookies, i + 1)

\* The whole merge loop of update_from_headers.
MergeAll(cookies, new_cookies) == MergeFrom(cookies, new_cookies, 1)

\* A faulty header text: the pairs joined by ";" alone.
CookieStrNoSpace(cookies) ==
    Join([i \in 1..Len(cookies) |->
             cookies[i].name \o <<"=">> \o cookies[i].value],
         <<";">>)

\* The Cookie header text: name=value joined by "; ".
CookieStr(cookies) ==
    Join([i \in 1..Len(cookies) |->
             cookies[i].name \o <<"=">> \o cookies[i].value],
         <<";", " ">>)

\* ------------------------------------------------------------------------
\* URLs (url::Url), as token sequences: scheme, "://", host, then the path
\* ------------------------------------------------------------------------

Schemes == {"http", "https"}

DomainHosts == {"panel.gate.cx", "example.org"}

IpHosts == {"127.0.0.1"}

\* ProxyState::base_url as main() sets it: https://panel.gate.cx/
BaseUrl == [scheme |-> "https", host |-> "panel.gate.cx", path |-> <<"/">>]

\* str::trim_start_matches('/')
TrimStartSlash(p) ==
    LET keep == {i \in 1..Len(p) : p[i] # "/"}
    IN  IF keep = {} THEN <<>> ELSE SubSeq(p, MinOf(keep), Len(p))

\* url::Url::parse of an absolute URL text; ok = FALSE for Err.
UrlParse(t) ==
    IF /\ Len(t) >= 3
       /\ t[1] \in Schemes
       /\ t[2] = "://"
       /\ t[3] \in DomainHosts \cup IpHosts
    THEN [ok |-> TRUE,
          url |-> [scheme |-> t[1], host |-> t[3],
                   path |-> IF Len(t) = 3 THEN <<"/">>
                            ELSE SubSeq(t, 4, Len(t))]]
    ELSE [ok |-> FALSE, url |-> BaseUrl]

\* Url::join of a request path onto the base: a path that opens with "//"
\* names its own host, any other path keeps the host of the base.
UrlJoin(base, p) ==
    IF Len(p) >= 3 /\ p[1] = "/" /\ p[2] = "/"
    THEN IF p[3] \in DomainHosts \cup IpHosts
         THEN [ok |-> TRUE,
               url |-> [scheme |-> base.scheme, host |-> p[3],
                        path |-> IF Len(p) = 3 THEN <<"/">>
                                 ELSE SubSeq(p, 4, Len(p))]]
         ELSE [ok |-> FALSE, url |-> base]
    ELSE [ok |-> TRUE,
          url |-> [scheme |-> base.scheme, host |-> base.host,
                   path |-> IF p = <<>> THEN base.path ELSE p]]

\* Url::domain: the host when it is a domain name, None for an IP address.
Domain(url) == IF url.host \in DomainHosts THEN url.host ELSE None

\* str::contains("://")
HasSchemeMark(t) == \E i \in 1..Len(t) : t[i] = "://"

\* A faulty resolution that tries the parse on every path and joins the path
\* onto the base URL when the parse fails.
ResolveTargetParseFirst(path) ==
    IF UrlParse(TrimStartSlash(path)).ok
    THEN UrlParse(TrimStartSlash(path))
    ELSE UrlJoin(BaseUrl, path)

\* The target of proxy_handler: an absolute URL in the path, else the path
\* joined onto the base URL.
ResolveTarget(path) ==
    LET req_path == TrimStartSlash(path)
    IN  IF HasSchemeMark(req_path)
        THEN UrlParse(req_path)
        ELSE UrlJoin(BaseUrl, path)

\* ------------------------------------------------------------------------
\* The outbound request of proxy_handler
\* ------------------------------------------------------------------------

HostHeaderValue == <<"p","a","n","e","l",".","g","a","t","e",".","c","x">>

RECURSIVE CopyHeadersNoCookie(_)
\* A header loop that leaves the caller's Cookie headers out.
CopyHeadersNoCookie(req_headers) ==
    IF req_headers = <<>> THEN <<>>
    ELSE LET kv == Head(req_headers)
             rest == CopyHeadersNoCookie(Tail(req_headers))
         IN  IF kv[1] = "host" THEN <<<<"host", HostHeaderValue>>>> \o rest
             ELSE IF kv[1] # "cookie" /\ ToStrOk(kv[2]) THEN <<kv>> \o rest
             ELSE rest

RECURSIVE CopyHeaders(_)
\* The header loop: Host is rewritten, every other header whose value is
\* visible ASCII is added as it came, the rest are dropped.
CopyHeaders(req_headers) ==
    IF req_headers = <<>> THEN <<>>
    ELSE LET kv == Head(req_headers)
             rest == CopyHeaders(Tail(req_headers))
         IN  IF kv[1] = "host" THEN <<<<"host", HostHeaderValue>>>> \o rest
             ELSE IF ToStrOk(kv[2]) THEN <<kv>> \o rest
             ELSE rest

\* A faulty gate that reads the jar for every target.
ReadsJarAlways(target_url) == TRUE

\* The jar is read for the gated domain only.
ReadsJar(target_url) == Domain(target_url) = GatedDomain

\* RequestBuilder::header appends: the Cookie header of the jar comes after
\* the copied headers.
BuildRequest(target_url, req_headers, cookies) ==
    LET copied == CopyHeaders(req_headers)
        cookie_str == CookieStr(cookies)
    IN  [ url     |-> target_url,
          headers |-> IF ReadsJar(target_url) /\ cookie_str # <<>>
                      THEN Append(copied, <<"cookie", cookie_str>>)
                      ELSE copied ]

\* ------------------------------------------------------------------------
\* State
\* ------------------------------------------------------------------------

VARIABLES
    cookies,      \* ProxyState.cookies: the store behind the mutex
    lock,         \* who holds the mutex of ProxyState.cookies
    cookiesFile,  \* cookies.json
    handlers,     \* the proxy_handler invocations in progress
    poller,       \* run_idex: its position and its locals
    ledgerFile    \* idex_history.json

vars == <<cookies, lock, cookiesFile, handlers, poller, ledgerFile>>

Handlers == 1..NumHandlers

Poller == 0

Unlocked == -1

\* A file on disk: absent, unreadable as JSON, or holding a list.
AbsentFile == [state |-> "absent", content |-> <<>>]

CorruptFile == [state |-> "corrupt", content |-> <<>>]

ValidFile(content) == [state |-> "valid", content |-> content]

\* What fs::write leaves behind: the new text; the old file when the file
\* could not be opened; a truncated file when the write failed part-way.
WriteOutcomes == {"ok", "open_failed", "write_failed"}

FsWrite(file, content, outcome) ==
    IF outcome = "ok" THEN ValidFile(content)
    ELSE IF outcome = "open_failed" THEN file
    ELSE CorruptFile

\* A faulty load that does not read the file.
LoadCookiesNever(file) == <<>>

\* load_cookies().unwrap_or_default()
LoadCookies(file) == IF file.state = "valid" THEN file.content ELSE <<>>

\* A mutex that lets everybody in.
CanLockAlways(t) == TRUE

\* Mutex::lock returns once nobody holds the mutex.
CanLock(t) == lock = Unlocked

IdleHandler ==
    [ pc          |-> "idle",
      path        |-> <<>>,
      target_url  |-> BaseUrl,
      req_headers |-> <<>>,
      request     |-> [url |-> BaseUrl, headers |-> <<>>],
      new_cookies |-> <<>>,
      next        |-> 1,
      status      |-> 0,
      body        |-> "" ]

\* ------------------------------------------------------------------------
\* Inputs of the proxy
\* ------------------------------------------------------------------------

\* Inbound request paths: absolute passthrough to the gated domain and to
\* another domain, a relative path, a path that holds "://" and is no URL.
RequestPaths ==
    { <<"/", "https", "://", "panel.gate.cx", "/", "x">>,
      <<"/", "https", "://", "example.org", "/", "x">>,
      <<"/", "x">>,
      <<"/", "x", "://", "y">> }

CallerCookie == <<"x", "=", "9">>

\* Inbound header lists: none, and a Host with a Cookie of the caller's own.
RequestHeaders ==
    { <<>>,
      << <<"host", <<"l","o","c","a","l">> >>, <<"cookie", CallerCookie>> >> }

\* Set-Cookie header values an origin may answer with.
SetCookieValues ==
    { <<"a", "=", "1">>,
      <<" ", "a", " ", "=", "2", ";", " ", "H", "t", "t", "p", "O", "n", "l", "y">>,
      <<"b", "=", "1">>,
      <<"c", "=", NonAsciiByte>> }

\* The lists of Set-Cookie headers a response of the given origin may carry:
\* every list for the gated domain, one short list for any other origin.
SetCookieLists(domain) ==
    IF domain = GatedDomain
    THEN SeqsUpTo(SetCookieValues, MaxSetCookie)
    ELSE {<<>>, << <<"b", "=", "1">> >>}

\* What comes back for an outbound request: a send error, a response whose
\* body cannot be read, or a response with its Set-Cookie headers.
UpstreamReplies(domain) ==
    { [kind |-> "send_error", status |-> 0, set_cookie |-> <<>>],
      [kind |-> "body_error", status |-> 200, set_cookie |-> <<>>] }
    \cup
    { [kind |-> "ok", status |-> 200, set_cookie |-> sc] :
          sc \in SetCookieLists(domain) }

\* The cookies a jar file may hold at start.
InitialCookieFiles ==
    { AbsentFile, CorruptFile,
      ValidFile(<<ParseSetCookie(<<"a", "=", "1">>, GatedDomain)>>) }

\* ------------------------------------------------------------------------
\* proxy_handler
\* ------------------------------------------------------------------------

\* A faulty handler that sends the request to the base URL when the target
\* does not resolve.
ProxyRequestFallBack(h, path, req_headers) ==
    /\ handlers[h].pc = "idle"
    /\ LET r == ResolveTarget(path)
           url == IF r.ok THEN r.url ELSE BaseUrl
       IN  /\ ReadsJar(url) => CanLock(h)
           /\ handlers' = [handlers EXCEPT ![h] =
                   [IdleHandler EXCEPT
                       !.pc = "sent",
                       !.path = path,
                       !.target_url = url,
                       !.req_headers = req_headers,
                       !.request = BuildRequest(url, req_headers, cookies)]]
    /\ UNCHANGED <<cookies, lock, cookiesFile, poller, ledgerFile>>

\* From the arrival of a request to the send of the outbound request: the
\* target is resolved (400 when that fails), the headers are copied and the
\* Cookie header is built under the mutex when the target is gated.
ProxyRequest(h, path, req_headers) ==
    /\ handlers[h].pc = "idle"
    /\ LET r == ResolveTarget(path)
       IN  IF ~r.ok
           THEN handlers' = [handlers EXCEPT ![h] =
                    [IdleHandler EXCEPT
                        !.pc = "done", !.path = path, !.status = 400,
                        !.body = IF HasSchemeMark(TrimStartSlash(path))
                                 THEN "Invalid URL: err"
                                 ELSE "URL join error: err"]]
           ELSE /\ ReadsJar(r.url) => CanLock(h)
                /\ handlers' = [handlers EXCEPT ![h] =
                    [IdleHandler EXCEPT
                        !.pc = "sent",
                        !.path = path,
                        !.target_url = r.url,
                        !.req_headers = req_headers,
                        !.request = BuildRequest(r.url, req_headers, cookies)]]
    /\ UNCHANGED <<cookies, lock, cookiesFile, poller, ledgerFile>>

\* target_url.domain().unwrap_or("")
DomainOrEmpty(url) == IF Domain(url) = None THEN "" ELSE Domain(url)

\* A faulty handler that relays a failed send with the status it has at hand.
ProxyReplyRelaysFailure(h, reply) ==
    /\ handlers[h].pc = "sent"
    /\ IF reply.kind # "ok"
       THEN /\ handlers' = [handlers EXCEPT ![h] =
                    [IdleHandler EXCEPT
                        !.pc = "done",
                        !.status = reply.status,
                        !.body = IF reply.kind = "send_error"
                                 THEN "Request error: err"
                                 ELSE "Body error: err"]]
            /\ lock' = lock
       ELSE /\ CanLock(h)
            /\ lock' = h
            /\ handlers' = [handlers EXCEPT ![h] =
                    [IdleHandler EXCEPT
                        !.pc = "merging",
                        !.target_url = handlers[h].target_url,
                        !.new_cookies =
                            NewCookies(reply.set_cookie,
                                       DomainOrEmpty(handlers[h].target_url)),
                        !.status = reply.status,
                        !.body = "body_bytes"]]
    /\ UNCHANGED <<cookies, cookiesFile, poller, ledgerFile>>

\* A faulty handler that merges the Set-Cookie headers before it reads the
\* body, and so also when the body then fails.
ProxyReplyMergesBeforeBody(h, reply) ==
    /\ handlers[h].pc = "sent"
    /\ IF reply.kind = "send_error"
       THEN /\ handlers' = [handlers EXCEPT ![h] =
                    [IdleHandler EXCEPT
                        !.pc = "done",
                        !.status = 500,
                        !.body = "Request error: err"]]
            /\ lock' = lock
       ELSE /\ CanLock(h)
            /\ lock' = h
            /\ handlers' = [handlers EXCEPT ![h] =
                    [IdleHandler EXCEPT
                        !.pc = "merging",
                        !.target_url = handlers[h].target_url,
                        !.new_cookies =
                            NewCookies(reply.set_cookie,
                                       DomainOrEmpty(handlers[h].target_url)),
                        !.status = IF reply.kind = "ok" THEN reply.status
                                   ELSE 500,
                        !.body = IF reply.kind = "ok" THEN "body_bytes"
                                 ELSE "Body error: err"]]
    /\ UNCHANGED <<cookies, cookiesFile, poller, ledgerFile>>

\* The outbound request comes back: 500 on a send or body error; otherwise
\* update_from_headers parses the Set-Cookie headers and takes the mutex.
ProxyReply(h, reply) ==
    /\ handlers[h].pc = "sent"
    /\ IF reply.kind # "ok"
       THEN /\ handlers' = [handlers EXCEPT ![h] =
                    [IdleHandler EXCEPT
                        !.pc = "done",
                        !.status = 500,
                        !.body = IF reply.kind = "send_error"
                                 THEN "Request error: err"
                                 ELSE "Body error: err"]]
            /\ lock' = lock
       ELSE /\ CanLock(h)
            /\ lock' = h
            /\ handlers' = [handlers EXCEPT ![h] =
                    [IdleHandler EXCEPT
                        !.pc = "merging",
                        !.target_url = handlers[h].target_url,
                        !.new_cookies =
                            NewCookies(reply.set_cookie,
                                       DomainOrEmpty(handlers[h].target_url)),
                        !.status = reply.status,
                        !.body = "body_bytes"]]
    /\ UNCHANGED <<cookies, cookiesFile, poller, ledgerFile>>

\* One turn of the loop over new_cookies, under the mutex.
MergeStep(h) ==
    /\ handlers[h].pc = "merging"
    /\ handlers[h].next <= Len(handlers[h].new_cookies)
    /\ cookies' = MergeOne(cookies, handlers[h].new_cookies[handlers[h].next])
    /\ handlers' = [handlers EXCEPT ![h].next = @ + 1]
    /\ UNCHANGED <<lock, cookiesFile, poller, ledgerFile>>

\* A faulty end that saves the jar whatever the batch was.
MergeEndAlwaysSave(h, outcome) ==
    /\ handlers[h].pc = "merging"
    /\ handlers[h].next > Len(handlers[h].new_cookies)
    /\ cookiesFile' = FsWrite(cookiesFile, cookies, outcome)
    /\ lock' = Unlocked
    /\ handlers' = [handlers EXCEPT ![h] =
            [IdleHandler EXCEPT
                !.pc = "done",
                !.status = handlers[h].status,
                !.body = handlers[h].body]]
    /\ UNCHANGED <<cookies, poller, ledgerFile>>

\* A faulty end of the merge that takes the merged cookies back out of the
\* jar and fails the request when the jar could not be saved.
MergeEndPropagates(h, outcome) ==
    /\ handlers[h].pc = "merging"
    /\ handlers[h].next > Len(handlers[h].new_cookies)
    /\ cookiesFile' = IF handlers[h].new_cookies # <<>>
                      THEN FsWrite(cookiesFile, cookies, outcome)
                      ELSE cookiesFile
    /\ lock' = Unlocked
    /\ LET failed == handlers[h].new_cookies # <<>> /\ outcome # "ok"
       IN  /\ cookies' = IF failed THEN LoadCookies(cookiesFile) ELSE cookies
           /\ handlers' = [handlers EXCEPT ![h] =
                   [IdleHandler EXCEPT
                       !.pc = "done",
                       !.status = IF failed THEN 500 ELSE handlers[h].status,
                       !.body = IF failed THEN "Save error: err"
                                ELSE handlers[h].body]]
    /\ UNCHANGED <<poller, ledgerFile>>

\* A faulty end of the merge that saves the cookies of the response in the
\* place of the jar.
MergeEndSavesBatch(h, outcome) ==
    /\ handlers[h].pc = "merging"
    /\ handlers[h].next > Len(handlers[h].new_cookies)
    /\ cookiesFile' = IF handlers[h].new_cookies # <<>>
                      THEN FsWrite(cookiesFile, handlers[h].new_cookies, outcome)
                      ELSE cookiesFile
    /\ lock' = Unlocked
    /\ handlers' = [handlers EXCEPT ![h] =
            [IdleHandler EXCEPT
                !.pc = "done",
                !.status = handlers[h].status,
                !.body = handlers[h].body]]
    /\ UNCHANGED <<cookies, poller, ledgerFile>>

\* The end of update_from_headers: the jar is saved when the batch was not
\* empty, the mutex is released and the response is relayed to the caller.
MergeEnd(h, outcome) ==
    /\ handlers[h].pc = "merging"
    /\ handlers[h].next > Len(handlers[h].new_cookies)
    /\ cookiesFile' = IF handlers[h].new_cookies # <<>>
                      THEN FsWrite(cookiesFile, cookies, outcome)
                      ELSE cookiesFile
    /\ lock' = Unlocked
    /\ handlers' = [handlers EXCEPT ![h] =
            [IdleHandler EXCEPT
                !.pc = "done",
                !.status = handlers[h].status,
                !.body = handlers[h].body]]
    /\ UNCHANGED <<cookies, poller, ledgerFile>>

\* The response has gone to the caller; the task ends.
Complete(h) ==
    /\ handlers[h].pc = "done"
    /\ handlers' = [handlers EXCEPT ![h] = IdleHandler]
    /\ UNCHANGED <<cookies, lock, cookiesFile, poller, ledgerFile>>

\* ------------------------------------------------------------------------
\* Transactions and the ledger (src/idex.rs)
\* ------------------------------------------------------------------------

\* Pages 1..=10 of one cycle.
MaxPage == 10

Digits == <<"0", "1", "2", "3", "4", "5", "6", "7", "8", "9">>

RECURSIVE NatToString(_)
NatToString(n) ==
    IF n < 10 THEN <<Digits[n + 1]>>
    ELSE NatToString(n \div 10) \o <<Digits[(n % 10) + 1]>>

\* i64::to_string
IntToString(n) == IF n < 0 THEN <<"-">> \o NatToString(-n) ELSE NatToString(n)

\* A JSON value in the "id" place of an element: a string, an integer,
\* something else (a float, null, an object), or no "id" key at all.
JsonString(s) == [t |-> "string", s |-> s, n |-> 0]

JsonInt(n) == [t |-> "int", s |-> <<>>, n |-> n]

JsonOther == [t |-> "other", s |-> <<>>, n |-> 0]

JsonMissing == [t |-> "missing", s |-> <<>>, n |-> 0]

\* A faulty extract_id that takes strings only.
extract_id_text_only(val) ==
    IF val.t = "string" THEN [some |-> TRUE, v |-> val.s]
    ELSE [some |-> FALSE, v |-> <<>>]

\* extract_id: Some(text) for a string or an integer, None otherwise.
extract_id(val) ==
    IF val.t = "string" THEN [some |-> TRUE, v |-> val.s]
    ELSE IF val.t = "int" THEN [some |-> TRUE, v |-> IntToString(val.n)]
    ELSE [some |-> FALSE, v |-> <<>>]

\* map_transaction, for the fields the model keeps: the id and the status.
map_transaction(json) ==
    [transaction_id |-> extract_id(json.id).v, status |-> json.status]

\* load_transactions: the list in the file, or an empty list when the file
\* is absent, cannot be read or does not deserialize.
load_transactions(file, read_ok) ==
    IF file.state = "valid" /\ read_ok THEN file.content ELSE <<>>

IdsOf(txs) == {txs[i].transaction_id : i \in 1..Len(txs)}

\* The transactions array of a decoded body: data.transactions when that
\* key is there, else response.payouts.data; Some only when it is an array.
TransArr(body) ==
    LET found == IF body.data_transactions.t # "absent"
                 THEN body.data_transactions
                 ELSE body.response_payouts_data
    IN  [some |-> found.t = "array", items |-> found.items]

RECURSIVE IngestPageNoLookup(_, _, _)
\* A faulty loop that does not look an id up in saved_ids before it maps
\* the element, and so takes the ids of the loaded ledger once more.
IngestPageNoLookup(items, i, st) ==
    IF i > Len(items) THEN st
    ELSE LET id == extract_id(items[i].id)
         IN  IF ~id.some \/ id.v \in {st.new_transactions[k].transaction_id :
                                          k \in 1..Len(st.new_transactions)}
             THEN IngestPageNoLookup(items, i + 1, st)
             ELSE IngestPageNoLookup(items, i + 1,
                    [ saved_ids |-> st.saved_ids \cup {id.v},
                      new_transactions |->
                          Append(st.new_transactions,
                                 [transaction_id |-> id.v,
                                  status |-> items[i].status]) ])

RECURSIVE IngestPage(_, _, _)
\* The loop over the elements of one page: st holds saved_ids and
\* new_transactions.
IngestPage(items, i, st) ==
    IF i > Len(items) THEN st
    ELSE LET id == extract_id(items[i].id)
         IN  IF ~id.some \/ id.v \in st.saved_ids
             THEN IngestPage(items, i + 1, st)
             ELSE LET new_tx == map_transaction(items[i])
                  IN  IngestPage(items, i + 1,
                        [ saved_ids |->
                              st.saved_ids \cup {new_tx.transaction_id},
                          new_transactions |->
                              Append(st.new_transactions, new_tx) ])

\* The "id" values of the elements of a page that are a string or an
\* integer, as the page gave them.
PageIds(items) ==
    {items[i].id : i \in {j \in 1..Len(items) :
                              items[j].id.t \in {"string", "int"}}}

\* Whether a page carries an id that an earlier page of the cycle added:
\* one that is in saved_ids at the start of the page and not in saved_tx.
SeenAgain(items, saved_ids, saved_tx) ==
    \E i \in 1..Len(items) :
        /\ extract_id(items[i].id).some
        /\ extract_id(items[i].id).v \in saved_ids \ IdsOf(saved_tx)

\* ------------------------------------------------------------------------
\* Inputs of the poller
\* ------------------------------------------------------------------------

\* Elements a page may carry: the same id as text and as a number with a
\* different status, a number of two digits, a value that is no id, and an
\* element without an id.
PageElements ==
    { [id |-> JsonString(<<"7">>), status |-> "new"],
      [id |-> JsonInt(7), status |-> "paid"],
      [id |-> JsonInt(12), status |-> "new"],
      [id |-> JsonOther, status |-> "new"],
      [id |-> JsonMissing, status |-> "new"] }

JsonAbsent == [t |-> "absent", items |-> <<>>]

JsonNotArray == [t |-> "other", items |-> <<>>]

JsonArray(items) == [t |-> "array", items |-> items]

PageArrays == SeqsUpTo(PageElements, MaxPageLen)

\* Decoded bodies: the array under either path (the short arrays under the
\* second), under neither, and a
\* data.transactions that is no array beside a payouts array.
PageBodies ==
    { [data_transactions |-> JsonArray(a), response_payouts_data |-> JsonAbsent] :
          a \in PageArrays }
    \cup
    { [data_transactions |-> JsonAbsent, response_payouts_data |-> JsonArray(a)] :
          a \in SeqsUpTo(PageElements, 1) }
    \cup
    { [data_transactions |-> JsonAbsent, response_payouts_data |-> JsonAbsent],
      [data_transactions |-> JsonNotArray,
       response_payouts_data |->
           JsonArray(<<[id |-> JsonInt(12), status |-> "new"]>>)] }

NoBody == [data_transactions |-> JsonAbsent, response_payouts_data |-> JsonAbsent]

\* What comes back for a page request: a send error, a non-success status,
\* a body that is no JSON, or a decoded body.
PageFailures ==
    { [kind |-> "send_error", body |-> NoBody],
      [kind |-> "http_error", body |-> NoBody],
      [kind |-> "bad_json", body |-> NoBody] }

PageReplies ==
    PageFailures \cup {[kind |-> "json", body |-> b] : b \in PageBodies}

\* The ledger files a run may start from: none, and a list of one record.
InitialLedgerFiles ==
    { AbsentFile,
      ValidFile(<<[transaction_id |-> <<"7">>, status |-> "new"]>>) }

\* ------------------------------------------------------------------------
\* run_idex
\* ------------------------------------------------------------------------

UserAgent == <<"M", "o", "z", "i", "l", "l", "a">>

IdlePoller ==
    [ pc               |-> "load",
      page             |-> 1,
      saved_tx         |-> <<>>,
      saved_ids        |-> {},
      new_transactions |-> <<>>,
      request          |-> <<>>,
      page_ids         |-> {},
      seen_again       |-> FALSE,
      failed           |-> FALSE,
      took_after       |-> FALSE,
      last_tx          |-> <<>> ]

\* The top of the loop: the ledger is loaded and its ids are collected.
PollLoad(read_ok) ==
    /\ poller.pc = "load"
    /\ LET tx == load_transactions(ledgerFile, read_ok)
       IN  poller' = [IdlePoller EXCEPT
                         !.pc = "build",
                         !.saved_tx = tx,
                         !.saved_ids = IdsOf(tx)]
    /\ UNCHANGED <<cookies, lock, cookiesFile, handlers, ledgerFile>>

\* A faulty request that carries a Cookie header also when the text is empty.
PollRequestAlwaysCookie(cookie_str) ==
    << <<"user-agent", UserAgent>>, <<"cookie", cookie_str>> >>

\* The request of one page: User-Agent, and the Cookie header built from
\* the jar under the mutex when that text is not empty.
PollRequest(cookie_str) ==
    IF cookie_str # <<>>
    THEN << <<"user-agent", UserAgent>>, <<"cookie", cookie_str>> >>
    ELSE << <<"user-agent", UserAgent>> >>

\* A faulty build that reads the jar for the first page of a cycle only.
PollBuildFirstPageOnly ==
    /\ poller.pc = "build"
    /\ CanLock(Poller)
    /\ poller' = [poller EXCEPT
                     !.pc = "fetch",
                     !.request = IF poller.page = 1
                                 THEN PollRequest(CookieStr(cookies))
                                 ELSE PollRequest(<<>>)]
    /\ UNCHANGED <<cookies, lock, cookiesFile, handlers, ledgerFile>>

\* The build of the request of one page: the jar is read under the mutex.
PollBuild ==
    /\ poller.pc = "build"
    /\ CanLock(Poller)
    /\ poller' = [poller EXCEPT
                     !.pc = "fetch",
                     !.request = PollRequest(CookieStr(cookies))]
    /\ UNCHANGED <<cookies, lock, cookiesFile, handlers, ledgerFile>>

\* How a page fails, "none" when its elements are ingested: the send fails,
\* the status is no success, the body is no JSON, or no array is found.
FailureOf(reply) ==
    IF reply.kind # "json" THEN reply.kind
    ELSE IF ~TransArr(reply.body).some THEN "no_array"
    ELSE "none"

\* A faulty answer step that gives the cycle up when a page fails.
PollReplyAbort(reply) ==
    /\ poller.pc = "fetch"
    /\ poller' = [poller EXCEPT
                     !.pc = IF FailureOf(reply) # "none" THEN "sleep"
                            ELSE IF poller.page < MaxPage THEN "build"
                            ELSE "save",
                     !.page = IF poller.page < MaxPage THEN @ + 1 ELSE @,
                     !.request = <<>>,
                     !.failed = @ \/ FailureOf(reply) # "none"]
    /\ UNCHANGED <<cookies, lock, cookiesFile, handlers, ledgerFile>>

\* The answer to one page: failures are logged and skipped, the elements
\* of a decoded array are ingested; then the next page, or the save.
PollReply(reply) ==
    /\ poller.pc = "fetch"
    /\ LET arr == TransArr(reply.body)
           took == reply.kind = "json" /\ arr.some
           st == IF took
                 THEN IngestPage(arr.items, 1,
                        [saved_ids |-> poller.saved_ids,
                         new_transactions |-> poller.new_transactions])
                 ELSE [saved_ids |-> poller.saved_ids,
                       new_transactions |-> poller.new_transactions]
       IN  poller' = [poller EXCEPT
                         !.pc = IF poller.page < MaxPage THEN "build" ELSE "save",
                         !.page = IF poller.page < MaxPage THEN @ + 1 ELSE @,
                         !.saved_ids = st.saved_ids,
                         !.new_transactions = st.new_transactions,
                         !.request = <<>>,
                         !.page_ids = IF took THEN @ \cup PageIds(arr.items)
                                      ELSE @,
                         !.seen_again =
                             @ \/ (took /\ SeenAgain(arr.items, poller.saved_ids,
                                                     poller.saved_tx)),
                         !.failed = @ \/ FailureOf(reply) # "none",
                         !.took_after =
                             @ \/ (/\ poller.failed
                                   /\ st.new_transactions
                                        # poller.new_transactions)]
    /\ UNCHANGED <<cookies, lock, cookiesFile, handlers, ledgerFile>>

\* A faulty save that leaves the loop when the write fails.
PollSaveStopOnError(outcome) ==
    /\ poller.pc = "save"
    /\ IF poller.new_transactions # <<>>
       THEN /\ poller' = [poller EXCEPT
                             !.pc = IF outcome = "ok" THEN "sleep"
                                    ELSE "stopped",
                             !.saved_tx = @ \o poller.new_transactions]
            /\ ledgerFile' = FsWrite(ledgerFile,
                                     poller.saved_tx \o poller.new_transactions,
                                     outcome)
       ELSE /\ poller' = [poller EXCEPT !.pc = "sleep"]
            /\ ledgerFile' = ledgerFile
    /\ UNCHANGED <<cookies, lock, cookiesFile, handlers>>

\* A faulty save that writes the list also when the cycle found nothing.
PollSaveAlways(outcome) ==
    /\ poller.pc = "save"
    /\ poller' = [poller EXCEPT
                     !.pc = "sleep",
                     !.saved_tx = @ \o poller.new_transactions]
    /\ ledgerFile' = FsWrite(ledgerFile,
                             poller.saved_tx \o poller.new_transactions,
                             outcome)
    /\ UNCHANGED <<cookies, lock, cookiesFile, handlers>>

\* A faulty save that puts the new records in front of the loaded list.
PollSaveNewFirst(outcome) ==
    /\ poller.pc = "save"
    /\ IF poller.new_transactions # <<>>
       THEN /\ poller' = [poller EXCEPT
                             !.pc = "sleep",
                             !.saved_tx = poller.new_transactions \o @]
            /\ ledgerFile' = FsWrite(ledgerFile,
                                     poller.new_transactions \o poller.saved_tx,
                                     outcome)
       ELSE /\ poller' = [poller EXCEPT !.pc = "sleep"]
            /\ ledgerFile' = ledgerFile
    /\ UNCHANGED <<cookies, lock, cookiesFile, handlers>>

\* After page 10: new records are appended to the loaded list and the whole
\* list is written; nothing is written when there are none.
PollSave(outcome) ==
    /\ poller.pc = "save"
    /\ IF poller.new_transactions # <<>>
       THEN /\ poller' = [poller EXCEPT
                             !.pc = "sleep",
                             !.saved_tx = @ \o poller.new_transactions]
            /\ ledgerFile' = FsWrite(ledgerFile,
                                     poller.saved_tx \o poller.new_transactions,
                                     outcome)
       ELSE /\ poller' = [poller EXCEPT !.pc = "sleep"]
            /\ ledgerFile' = ledgerFile
    /\ UNCHANGED <<cookies, lock, cookiesFile, handlers>>

\* The sleep of 5 seconds ends; the loop starts over. The list the ended
\* cycle held in memory is remembered in last_tx until the load replaces it.
PollSleep ==
    /\ poller.pc = "sleep"
    /\ poller' = [IdlePoller EXCEPT !.last_tx = poller.saved_tx]
    /\ UNCHANGED <<cookies, lock, cookiesFile, handlers, ledgerFile>>

\* ------------------------------------------------------------------------
\* Specifications
\* ------------------------------------------------------------------------

\* The proxy: the jar as loaded from cookies.json, no request in progress.
Init ==
    /\ cookiesFile \in InitialCookieFiles
    /\ cookies = LoadCookies(cookiesFile)
    /\ lock = Unlocked
    /\ handlers = [h \in Handlers |-> IdleHandler]
    /\ poller = IdlePoller
    /\ ledgerFile = AbsentFile

ProxyNext ==
    \E h \in Handlers :
        \/ \E path \in RequestPaths, req_headers \in RequestHeaders :
               ProxyRequest(h, path, req_headers)
        \/ \E reply \in UpstreamReplies(Domain(handlers[h].target_url)) :
               ProxyReply(h, reply)
        \/ MergeStep(h)
        \/ \E outcome \in WriteOutcomes : MergeEnd(h, outcome)
        \/ Complete(h)

Next == ProxyNext

Spec == Init /\ [][Next]_vars

\* The poller alone, over every answer a page may get.
InitLedger ==
    /\ cookiesFile \in {ValidFile(<<ParseSetCookie(<<"a", "=", "1">>, GatedDomain)>>)}
    /\ cookies = LoadCookies(cookiesFile)
    /\ lock = Unlocked
    /\ handlers = [h \in Handlers |-> IdleHandler]
    /\ poller = IdlePoller
    /\ ledgerFile \in InitialLedgerFiles

NextLedger ==
    \/ \E read_ok \in BOOLEAN : PollLoad(read_ok)
    \/ PollBuild
    \/ \E reply \in PageReplies : PollReply(reply)
    \/ \E outcome \in WriteOutcomes : PollSave(outcome)
    \/ PollSleep

SpecLedger == InitLedger /\ [][NextLedger]_vars

\* The poller as the runtime drives it: the task runs on whenever it can,
\* every page request comes back, with an answer or an error, and the timer
\* of the sleep fires.
SpecLedgerLive ==
    /\ SpecLedger
    /\ WF_vars(\E read_ok \in BOOLEAN : PollLoad(read_ok))
    /\ WF_vars(PollBuild)
    /\ WF_vars(\E reply \in PageReplies : PollReply(reply))
    /\ WF_vars(\E outcome \in WriteOutcomes : PollSave(outcome))
    /\ WF_vars(PollSleep)

\* The proxy and the poller side by side on the shared jar: requests to the
\* gated domain with and without headers of the caller, two answers that
\* set cookies, pages that fail to send.
SharedSetCookieLists ==
    { << <<"a", "=", "1">> >>,
      << <<" ", "a", " ", "=", "2", ";", " ", "H", "t", "t", "p", "O", "n", "l", "y">>,
         <<"b", "=", "1">> >> }

InitShared ==
    /\ cookiesFile = AbsentFile
    /\ cookies = LoadCookies(cookiesFile)
    /\ lock = Unlocked
    /\ handlers = [h \in Handlers |-> IdleHandler]
    /\ poller = IdlePoller
    /\ ledgerFile = AbsentFile

NextShared ==
    \/ \E h \in Handlers :
        \/ \E req_headers \in RequestHeaders :
               ProxyRequest(h, <<"/", "x">>, req_headers)
        \/ \E sc \in SharedSetCookieLists :
               ProxyReply(h, [kind |-> "ok", status |-> 200, set_cookie |-> sc])
        \/ MergeStep(h)
        \/ MergeEnd(h, "ok")
        \/ Complete(h)
    \/ PollLoad(TRUE)
    \/ PollBuild
    \/ PollReply([kind |-> "send_error", body |-> NoBody])
    \/ PollSave("ok")
    \/ PollSleep

SpecShared == InitShared /\ [][NextShared]_vars

\* The proxy and the poller side by side with requests that fail: a path
\* that does not resolve, a send that fails, a body that fails after headers
\* that set a cookie, and an answer that sets one; writes of the cookie file
\* that fail.

\* A Set-Cookie header that a browser takes for the deletion of a: no
\* value, and an age of zero.
ExpiresCookie ==
    <<"a", "=", ";", " ", "M", "a", "x", "-", "A", "g", "e", "=", "0">>

MixedPaths == { <<"/", "x">>, <<"/", "x", "://", "y">> }

MixedReplies ==
    { [kind |-> "send_error", status |-> 0, set_cookie |-> <<>>],
      [kind |-> "body_error", status |-> 200,
       set_cookie |-> << <<"b", "=", "1">> >>],
      [kind |-> "ok", status |-> 200,
       set_cookie |-> << <<"a", "=", "1">> >>],
      [kind |-> "ok", status |-> 200,
       set_cookie |-> << ExpiresCookie >>] }

NextMixed ==
    \/ \E h \in Handlers :
        \/ \E path \in MixedPaths : ProxyRequest(h, path, <<>>)
        \/ \E reply \in MixedReplies : ProxyReply(h, reply)
        \/ MergeStep(h)
        \/ \E outcome \in WriteOutcomes : MergeEnd(h, outcome)
        \/ Complete(h)
    \/ PollLoad(TRUE)
    \/ PollBuild
    \/ PollReply([kind |-> "send_error", body |-> NoBody])
    \/ PollSave("ok")
    \/ PollSleep

SpecMixed == InitShared /\ [][NextMixed]_vars

\* The program from before ProxyState::new: whatever cookies.json is, the
\* state is built from it, and then the proxy and the poller run on it.
Unbuilt == -2

\* A cookies.json that exists and cannot be read.
UnreadableFile == [state |-> "unreadable", content |-> <<>>]

InitStart ==
    /\ cookiesFile \in InitialCookieFiles \cup {UnreadableFile}
    /\ cookies = <<>>
    /\ lock = Unbuilt
    /\ handlers = [h \in Handlers |-> IdleHandler]
    /\ poller = IdlePoller
    /\ ledgerFile = AbsentFile

\* ProxyState::new: the store is what load_cookies gives, or the default.
NewProxyState ==
    /\ lock = Unbuilt
    /\ cookies' = LoadCookies(cookiesFile)
    /\ lock' = Unlocked
    /\ UNCHANGED <<cookiesFile, handlers, poller, ledgerFile>>

NextStart ==
    \/ NewProxyState
    \/ lock # Unbuilt /\ NextMixed

SpecStart == InitStart /\ [][NextStart]_vars

\* ------------------------------------------------------------------------
\* Properties of the jar and of the proxy
\* ------------------------------------------------------------------------

\* The values of the Cookie headers of a header list, in order.
CookieValues(headers) ==
    LET cs == SelectSeq(headers, LAMBDA kv : kv[1] = "cookie")
    IN  [i \in 1..Len(cs) |-> cs[i][2]]

\* Handler h has applied every cookie of its batch and still holds the mutex.
BatchApplied(h) ==
    /\ handlers[h].pc = "merging"
    /\ handlers[h].next > Len(handlers[h].new_cookies)

\* Handler h takes one turn of its merge loop in this step.
MergeTurn(h) ==
    /\ handlers[h].pc = "merging"
    /\ handlers'[h].pc = "merging"
    /\ handlers'[h].next = handlers[h].next + 1

\* Handler h sends its outbound request in this step.
SendsRequest(h) == handlers[h].pc = "idle" /\ handlers'[h].pc = "sent"

\* C1: at most one entry per cookie name in the jar, in every state that any
\* interleaving of merges reaches from a jar of distinct names.
C1_OneEntryPerName ==
    \A i, j \in 1..Len(cookies) :
        cookies[i].name = cookies[j].name => i = j

\* A response that carried the same name twice has been merged in full.
C1_Witness ==
    \E h \in Handlers :
        /\ BatchApplied(h)
        /\ Len(handlers[h].new_cookies) = 2
        /\ handlers[h].new_cookies[1].name = handlers[h].new_cookies[2].name
        /\ handlers[h].new_cookies[1].value # handlers[h].new_cookies[2].value

\* What C5 asks of a single step.
C5_Step ==
    /\ \A h \in Handlers :
         MergeTurn(h) =>
           LET nc == handlers[h].new_cookies[handlers[h].next]
               same == {i \in 1..Len(cookies) : cookies[i].name = nc.name}
           IN  IF same = {}
               THEN cookies' = Append(cookies, nc)
               ELSE /\ Len(cookies') = Len(cookies)
                    /\ \E p \in same :
                         /\ cookies'[p] = nc
                         /\ \A i \in 1..Len(cookies) :
                              i # p => cookies'[i] = cookies[i]
    /\ cookies' # cookies => \E h \in Handlers : MergeTurn(h)
    /\ \A h \in Handlers :
         (handlers'[h].pc = "merging"
            /\ handlers'[h].next > Len(handlers'[h].new_cookies)) =>
           LET batch == handlers'[h].new_cookies
           IN  \A k \in 1..Len(batch) :
                 LET last == MaxOf({j \in 1..Len(batch) :
                                       batch[j].name = batch[k].name})
                 IN  \E i \in 1..Len(cookies') : cookies'[i] = batch[last]

\* C5: every turn of a merge replaces the entry of the same name in place or
\* appends at the end, leaves every other entry where it was, nothing else
\* changes the jar, and once the batch is applied the jar holds, for each
\* incoming name, the last incoming cookie of that name.
C5_MergeInOrder == [][C5_Step]_vars

\* A batch of two was merged into a jar of one: its second cookie replaced
\* the entry in place, its first was appended behind it.
C5_Witness ==
    \E h \in Handlers :
        /\ BatchApplied(h)
        /\ Len(handlers[h].new_cookies) = 2
        /\ Len(cookies) = 2
        /\ cookies[1] = handlers[h].new_cookies[2]
        /\ cookies[2] = handlers[h].new_cookies[1]

\* A Cookie header of a request that is not the one the caller sent along.
JarCookieHeaders(req) ==
    {i \in 1..Len(req.headers) :
        req.headers[i][1] = "cookie" /\ req.headers[i][2] # CallerCookie}

\* What C8 asks of a single step.
C8_Step ==
    \A h \in Handlers :
        SendsRequest(h) =>
          LET req == handlers'[h].request
          IN  /\ JarCookieHeaders(req) # {} <=>
                   (Domain(req.url) = GatedDomain /\ cookies # <<>>)
              /\ \A i \in JarCookieHeaders(req) :
                   req.headers[i][2] = CookieStr(cookies)

\* C8: an outbound request of the proxy carries a Cookie header built from
\* the jar exactly when its target is on the gated domain and the jar is not
\* empty, and that header is the text of the jar.
C8_CookieOnGatedOnly == [][C8_Step]_vars

\* With cookies in the jar, one request is on its way to another domain
\* without them and one to the gated domain with them.
C8_Witness ==
    /\ cookies # <<>>
    /\ \E h \in Handlers :
         /\ handlers[h].pc = "sent"
         /\ Domain(handlers[h].target_url) = "example.org"
         /\ JarCookieHeaders(handlers[h].request) = {}
    /\ \E h \in Handlers :
         /\ handlers[h].pc = "sent"
         /\ Domain(handlers[h].target_url) = GatedDomain
         /\ JarCookieHeaders(handlers[h].request) # {}

\* C9, as claimed: a request to the gated domain carries no Cookie header
\* of the caller.
C9_CallerCookieDropped ==
    \A h \in Handlers :
        (handlers[h].pc = "sent" /\ ReadsJar(handlers[h].target_url)) =>
          \A i \in 1..Len(handlers[h].request.headers) :
              handlers[h].request.headers[i] # <<"cookie", CallerCookie>>

\* The Cookie headers of the caller that the header loop lets through.
CallerCookies(req_headers) ==
    SelectSeq(CookieValues(req_headers), ToStrOk)

\* C9, amended: a request to the gated domain carries the caller's Cookie
\* headers as they came, and after them at most one more, the jar's.
C9_CallerCookieForwarded ==
    \A h \in Handlers :
        (handlers[h].pc = "sent" /\ ReadsJar(handlers[h].target_url)) =>
          LET out == CookieValues(handlers[h].request.headers)
              inb == CallerCookies(handlers[h].req_headers)
          IN  /\ Len(out) \in {Len(inb), Len(inb) + 1}
              /\ SubSeq(out, 1, Len(inb)) = inb
              /\ Len(out) = Len(inb) + 1 => out[Len(out)] # CallerCookie

\* A request to the gated domain is on its way with the caller's Cookie
\* header and the jar's behind it.
C9_Witness ==
    \E h \in Handlers :
        /\ handlers[h].pc = "sent"
        /\ ReadsJar(handlers[h].target_url)
        /\ CallerCookies(handlers[h].req_headers) = <<CallerCookie>>
        /\ Len(CookieValues(handlers[h].request.headers)) = 2

\* What C10 asks of a single step.
C10_Step ==
    \A h \in Handlers :
        (MergeTurn(h) /\ Domain(handlers[h].target_url) # GatedDomain) =>
          cookies' = cookies

\* C10, as claimed: the merge of a response from a target that is not on
\* the gated domain leaves the jar as it was.
C10_NoCaptureOffGated == [][C10_Step]_vars

\* The name-to-value pairs of a cookie list.
Pairs(cs) == {<<cs[i].name, cs[i].value>> : i \in 1..Len(cs)}

NamesOf(cs) == {cs[i].name : i \in 1..Len(cs)}

\* For each name of a batch, the pair of its last cookie of that name.
LastPairs(batch) ==
    {<<batch[k].name, batch[k].value>> :
        k \in {j \in 1..Len(batch) :
                  \A m \in (j + 1)..Len(batch) : batch[m].name # batch[j].name}}

\* Handler h has parsed its response and entered its merge, and has not
\* taken a turn of the loop yet: the jar is as the merge found it.
EnteredMerge(h) == handlers[h].pc = "merging" /\ handlers[h].next = 1

\* For each domain of a target, the batches a response from it may carry.
ParsedBatches ==
    [d \in DomainHosts \cup {None} |->
        {NewCookies(sc, IF d = None THEN "" ELSE d) : sc \in SetCookieLists(d)}]

\* The batches the response to the outbound request of handler h may carry.
BatchesFor(h) == ParsedBatches[Domain(handlers[h].target_url)]

\* What C11 asks of a single step.
C11_Step ==
    /\ \A h \in Handlers :
         MergeTurn(h) =>
           MergeFrom(cookies', handlers[h].new_cookies, handlers[h].next + 1)
             = MergeFrom(cookies, handlers[h].new_cookies, handlers[h].next)
    /\ \A h1, h2 \in Handlers :
         (h1 # h2 /\ EnteredMerge(h1) /\ handlers[h2].pc = "sent") =>
           LET b1 == handlers[h1].new_cookies
           IN  \A b2 \in BatchesFor(h2) :
                 NamesOf(b1) \cap NamesOf(b2) = {} =>
                   LET first == MergeAll(MergeAll(cookies, b1), b2)
                       second == MergeAll(MergeAll(cookies, b2), b1)
                       kept == {p \in Pairs(cookies) :
                                  p[1] \notin NamesOf(b1) \cup NamesOf(b2)}
                   IN  /\ Pairs(first) = Pairs(second)
                       /\ Pairs(first) =
                            kept \cup LastPairs(b1) \cup LastPairs(b2)

\* C11: the turns of a merge compute the merge loop on the jar; and when one
\* handler has entered its merge while another awaits its response, then for
\* every batch of other names that response may bring, the two merges leave
\* the same name-to-value pairs in either order: the pairs of the old jar
\* under other names, and the last pair of each name of either batch.
C11_MergesCommute == [][C11_Step]_vars

\* A handler has entered its merge with a batch of the name a while the
\* other awaits a response that may set b, on a jar that is not empty.
C11_Witness ==
    \E h1, h2 \in Handlers :
        /\ h1 # h2
        /\ handlers[h1].pc = "merging"
        /\ handlers[h1].next = 1
        /\ NamesOf(handlers[h1].new_cookies) = {<<"a">>}
        /\ Len(handlers[h1].new_cookies) = 2
        /\ handlers[h2].pc = "sent"
        /\ \E b2 \in BatchesFor(h2) : NamesOf(b2) = {<<"b">>}
        /\ cookies # <<>>

\* The values the entries of the given name hold, one per entry.
ValuesUnder(cs, name) ==
    [i \in 1..Len(SelectSeq(cs, LAMBDA c : c.name = name)) |->
        SelectSeq(cs, LAMBDA c : c.name = name)[i].value]

\* The value of the last cookie of the given name in a batch.
LastValue(batch, name) ==
    batch[MaxOf({j \in 1..Len(batch) : batch[j].name = name})].value

\* What C12 asks of a single step.
C12_Step ==
    /\ \A h \in Handlers : MergeTurn(h) => lock = h /\ lock' = h
    /\ \A h \in Handlers :
         (handlers'[h].pc = "merging"
            /\ handlers'[h].next > Len(handlers'[h].new_cookies)) =>
           \A n \in NamesOf(handlers'[h].new_cookies) :
               ValuesUnder(cookies', n) =
                   <<LastValue(handlers'[h].new_cookies, n)>>
    /\ \A h1, h2 \in Handlers :
         (h1 # h2 /\ EnteredMerge(h1) /\ handlers[h2].pc = "sent") =>
           LET b1 == handlers[h1].new_cookies
           IN  \A b2 \in BatchesFor(h2) :
                 \A n \in NamesOf(b1) \cap NamesOf(b2) :
                   /\ ValuesUnder(MergeAll(MergeAll(cookies, b1), b2), n)
                        = <<LastValue(b2, n)>>
                   /\ ValuesUnder(MergeAll(MergeAll(cookies, b2), b1), n)
                        = <<LastValue(b1, n)>>

\* C12: a merge is applied by the holder of the mutex, and when it is
\* applied the jar holds one entry for each of its names, with the last
\* value the batch carried; so when one handler has entered its merge while
\* another awaits a response that may set the same name, the jar ends with
\* one entry of that name holding the value of whichever merge comes second.
C12_LastWriterWins == [][C12_Step]_vars

\* Over a jar that holds a=1, a handler has entered its merge with a=2
\* while the other awaits a response that may set a=1.
C12_Witness ==
    \E h1, h2 \in Handlers :
        /\ h1 # h2
        /\ handlers[h1].pc = "merging"
        /\ handlers[h1].next = 1
        /\ Pairs(handlers[h1].new_cookies) = {<< <<"a">>, <<"2">> >>}
        /\ handlers[h2].pc = "sent"
        /\ \E b2 \in BatchesFor(h2) : Pairs(b2) = {<< <<"a">>, <<"1">> >>}
        /\ Pairs(cookies) = {<< <<"a">>, <<"1">> >>}

\* C13: once a handler has applied its batch, running the merge loop once
\* more with the same batch gives the jar as it stands, and the jar holds one
\* entry per name of the batch with the last value the batch carried; and
\* for every batch a response may bring, merging it twice into the jar as
\* it stands gives what merging it once gives.
C13_MergeIdempotent ==
    /\ \A h \in Handlers :
         BatchApplied(h) =>
           /\ MergeAll(cookies, handlers[h].new_cookies) = cookies
           /\ \A n \in NamesOf(handlers[h].new_cookies) :
                ValuesUnder(cookies, n) =
                    <<LastValue(handlers[h].new_cookies, n)>>
    /\ \A b \in ParsedBatches[GatedDomain] :
         MergeAll(MergeAll(cookies, b), b) = MergeAll(cookies, b)

\* A batch that sets a=1 and then a=2 has been applied to a jar that now
\* holds its second cookie alone.
C13_Witness ==
    \E h \in Handlers :
        /\ BatchApplied(h)
        /\ Len(handlers[h].new_cookies) = 2
        /\ handlers[h].new_cookies[1].value = <<"1">>
        /\ handlers[h].new_cookies[2].value = <<"2">>
        /\ cookies = <<handlers[h].new_cookies[2]>>

\* What C14 asks of a single step.
C14_Step ==
    \A h \in Handlers :
        (handlers[h].pc = "merging" /\ handlers[h].new_cookies = <<>>) =>
          /\ cookies' = cookies
          /\ cookiesFile' = cookiesFile
          /\ handlers'[h].pc \in {"merging", "done"}

\* C14: from the moment a handler enters a merge whose batch is empty until
\* it has left it, no step changes the jar or the cookie file.
C14_EmptyMergeNoWrite == [][C14_Step]_vars

\* A handler is in a merge with an empty batch while the file does not hold
\* what the jar holds, so that a save would show.
C14_Witness ==
    \E h \in Handlers :
        /\ handlers[h].pc = "merging"
        /\ handlers[h].new_cookies = <<>>
        /\ cookies # <<>>
        /\ cookiesFile # ValidFile(cookies)

RECURSIVE SplitOn(_, _)
\* The pieces of s between the occurrences of sep.
SplitOn(s, sep) ==
    LET hits == {i \in 1..(Len(s) - Len(sep) + 1) :
                    SubSeq(s, i, i + Len(sep) - 1) = sep}
    IN  IF hits = {} THEN <<s>>
        ELSE <<SubSeq(s, 1, MinOf(hits) - 1)>>
             \o SplitOn(SubSeq(s, MinOf(hits) + Len(sep), Len(s)), sep)

\* A Cookie header text holds the pair name=value.
HasPair(text, name, value) ==
    LET pairs == SplitOn(text, <<";", " ">>)
    IN  \E i \in 1..Len(pairs) : pairs[i] = name \o <<"=">> \o value

\* A request (its header list) carries the pair name=value in a Cookie header.
CarriesPair(headers, name, value) ==
    \E i \in 1..Len(CookieValues(headers)) :
        HasPair(CookieValues(headers)[i], name, value)

\* The poller builds the request of a page in this step.
PollBuilds == poller.pc = "build" /\ poller'.pc = "fetch"

\* What C6 asks of a single step.
C6_Step ==
    /\ ( \/ PollBuilds
         \/ \E h \in Handlers :
              SendsRequest(h) /\ ReadsJar(handlers'[h].target_url) )
       => \A h \in Handlers : handlers[h].pc # "merging"
    /\ \A h1, h2 \in Handlers :
         (handlers'[h1].pc = "merging" /\ handlers'[h2].pc = "merging")
           => h1 = h2
    /\ \A h \in Handlers : MergeTurn(h) => lock = h

\* C6: a Cookie header is never built, by the proxy or by the poller, while
\* a merge is under way; no two merges are under way at once; and a turn of
\* a merge is taken only by the holder of the mutex.
C6_MergeAtomic == [][C6_Step]_vars

\* One cookie of a batch of two is applied while the poller is about to
\* build the header of a page and the other handler is free to take a
\* request.
C6_Witness ==
    /\ poller.pc = "build"
    /\ \E h \in Handlers :
         /\ handlers[h].pc = "merging"
         /\ handlers[h].next = 2
         /\ Len(handlers[h].new_cookies) = 2
    /\ \E h \in Handlers : handlers[h].pc = "idle"

\* What C7 asks of a single step.
C7_Step ==
    /\ \A h \in Handlers :
         (SendsRequest(h) /\ ReadsJar(handlers'[h].target_url)) =>
           \A i \in 1..Len(cookies) :
             CarriesPair(handlers'[h].request.headers,
                         cookies[i].name, cookies[i].value)
    /\ PollBuilds =>
         \A i \in 1..Len(cookies) :
           CarriesPair(poller'.request, cookies[i].name, cookies[i].value)
    /\ \A i \in 1..Len(cookies) :
         \/ \E j \in 1..Len(cookies') :
              /\ cookies'[j].name = cookies[i].name
              /\ cookies'[j].value = cookies[i].value
         \/ \E h \in Handlers :
              /\ MergeTurn(h)
              /\ handlers[h].new_cookies[handlers[h].next].name = cookies[i].name
    /\ \A h \in Handlers :
         (handlers'[h].pc = "merging"
            /\ handlers'[h].next > Len(handlers'[h].new_cookies)) =>
           LET batch == handlers'[h].new_cookies
           IN  \A k \in 1..Len(batch) :
                 LET last == MaxOf({j \in 1..Len(batch) :
                                       batch[j].name = batch[k].name})
                 IN  \E i \in 1..Len(cookies') :
                       /\ cookies'[i].name = batch[k].name
                       /\ cookies'[i].value = batch[last].value

\* C7: every Cookie header built for the gated domain holds the pair of each
\* entry of the jar; an entry stays in the jar until a turn of a merge brings
\* a cookie of its name; and a merged batch leaves, for each of its names,
\* the last value it carried.
C7_MergedCookieReplayed == [][C7_Step]_vars

\* After a=2 and b=1 were merged, a page request of the poller and a request
\* of the proxy are on their way with both pairs.
C7_Witness ==
    /\ poller.pc = "fetch"
    /\ CarriesPair(poller.request, <<"a">>, <<"2">>)
    /\ CarriesPair(poller.request, <<"b">>, <<"1">>)
    /\ \E h \in Handlers :
         /\ handlers[h].pc = "sent"
         /\ CarriesPair(handlers[h].request.headers, <<"a">>, <<"2">>)
         /\ CarriesPair(handlers[h].request.headers, <<"b">>, <<"1">>)

\* Handler h has resolved the target of its request and not yet heard from
\* the origin: the request is on its way, or was refused with 400.
Resolved(h) ==
    \/ handlers[h].pc = "sent"
    \/ handlers[h].pc = "done" /\ handlers[h].status = 400

\* The request of handler h is on its way to the given URL.
SentTo(h, url) == handlers[h].pc = "sent" /\ handlers[h].target_url = url

TakesRequest(h) == handlers[h].pc = "idle" /\ handlers'[h].pc # "idle"

\* Handler h has refused its request with 400.
Refused(h) == handlers[h].pc = "done" /\ handlers[h].status = 400

\* What C20 asks of a single step.
C20_Step ==
    /\ \A h \in Handlers :
         (TakesRequest(h) /\ ~ResolveTarget(handlers'[h].path).ok) =>
           /\ handlers'[h].pc = "done"
           /\ handlers'[h].status = 400
           /\ handlers'[h].request = IdleHandler.request
           /\ cookies' = cookies /\ lock' = lock /\ cookiesFile' = cookiesFile
           /\ \A g \in Handlers \ {h} : handlers'[g] = handlers[g]
    /\ \A h \in Handlers :
         (TakesRequest(h) /\ ResolveTarget(handlers'[h].path).ok) =>
           handlers'[h].pc = "sent"
    /\ \A h \in Handlers :
         Refused(h) =>
           /\ handlers'[h] \in {handlers[h], IdleHandler}
           /\ ENABLED Complete(h)
           /\ \A g \in Handlers \ {h} :
                (handlers[g].pc = "idle" /\ lock = Unlocked) =>
                  \A path \in RequestPaths :
                      ENABLED ProxyRequest(g, path, <<>>)

\* C20: a request whose target does not resolve is answered with 400 in the
\* step that takes it, without an outbound request and without a change to
\* the jar, the mutex, the cookie file or any other handler; a request whose
\* target resolves is sent; and after a refusal the handler ends its task
\* and every idle handler takes requests as before (once the mutex is free,
\* for a target that needs the jar).
C20_BadTargetRefused == [][C20_Step]_vars

\* One request was refused with 400 while the other handler, which holds
\* the mutex, merges the cookies of the response to its own request.
C20_Witness ==
    \E h, g \in Handlers :
        /\ Refused(h)
        /\ ~ResolveTarget(handlers[h].path).ok
        /\ handlers[g].pc = "merging"
        /\ handlers[g].new_cookies # <<>>

\* The send of handler h's outbound request has failed and the handler has
\* answered its caller.
SendFailed(h) ==
    handlers[h].pc = "done" /\ handlers[h].body = "Request error: err"

\* C21, as claimed: the answer to a failed send has the status 502.
C21_BadGateway ==
    \A h \in Handlers : SendFailed(h) => handlers[h].status = 502

\* What the amended C21 asks of a single step.
C21_Step ==
    /\ \A h \in Handlers :
         (handlers[h].pc = "sent" /\ handlers'[h].pc = "done") =>
           /\ handlers'[h].status = 500
           /\ handlers'[h].body \in {"Request error: err", "Body error: err"}
           /\ cookies' = cookies /\ lock' = lock /\ cookiesFile' = cookiesFile
           /\ \A g \in Handlers \ {h} : handlers'[g] = handlers[g]
    /\ \A h \in Handlers :
         SendFailed(h) =>
           /\ handlers[h].status = 500
           /\ handlers'[h] \in {handlers[h], IdleHandler}
           /\ ENABLED Complete(h)

\* C21, amended: a request whose send fails is answered with the status 500
\* and the text of the error, in one step that changes neither the jar, the
\* mutex, the cookie file nor any other handler, and the handler then ends
\* its task.
C21_SendFailureAnswered == [][C21_Step]_vars

\* One request was answered with 500 after its send failed while the other
\* handler merges the cookies of the response to its own.
C21_Witness ==
    \E h, g \in Handlers :
        /\ SendFailed(h)
        /\ handlers[h].status = 500
        /\ handlers[g].pc = "merging"
        /\ handlers[g].new_cookies # <<>>

\* The cookie file does not hold the jar: it was never written, or the last
\* write of it failed.
FileBehindJar == cookiesFile # ValidFile(cookies)

\* What C22 asks of a single step.
C22_Step ==
    /\ \A h \in Handlers :
         (BatchApplied(h) /\ handlers'[h].pc = "done"
            /\ handlers[h].new_cookies # <<>>
            /\ cookiesFile' # ValidFile(cookies)) =>
           /\ handlers'[h].status = handlers[h].status
           /\ handlers'[h].body = "body_bytes"
           /\ cookies' = cookies
           /\ LastPairs(handlers[h].new_cookies) \subseteq Pairs(cookies')
           /\ lock' = Unlocked
    /\ \A h \in Handlers :
         (SendsRequest(h) /\ FileBehindJar
            /\ Domain(handlers'[h].target_url) = GatedDomain
            /\ cookies # <<>>) =>
           \E i \in 1..Len(handlers'[h].request.headers) :
               handlers'[h].request.headers[i] = <<"cookie", CookieStr(cookies)>>

\* C22: when the write of the cookie file fails at the end of a merge, the
\* response is relayed all the same with its status and body, the jar keeps
\* the merged cookies, and the Cookie header of every later request to the
\* gated domain is rendered from the jar in memory, not from the file.
C22_SaveFailureNotPropagated == [][C22_Step]_vars

\* The write of a merged jar has failed and left a broken file; a response
\* has been relayed, and a later request carries the cookies of the jar.
C22_Witness ==
    \E h, g \in Handlers :
        /\ cookiesFile = CorruptFile
        /\ cookies # <<>>
        /\ handlers[g].pc = "done"
        /\ handlers[g].status = 200
        /\ handlers[g].body = "body_bytes"
        /\ handlers[h].pc = "sent"
        /\ \E i \in 1..Len(handlers[h].request.headers) :
               handlers[h].request.headers[i] = <<"cookie", CookieStr(cookies)>>

\* Handler h holds the mutex in the merge of a response whose status,
\* headers and body it has received.
MergesReceived(h) ==
    /\ handlers[h].pc = "merging"
    /\ lock = h
    /\ handlers[h].body = "body_bytes"

\* What C25 asks of a single step.
C25_Step ==
    /\ cookies' # cookies => \E h \in Handlers : MergesReceived(h)
    /\ cookiesFile' # cookiesFile => \E h \in Handlers : MergesReceived(h)
    /\ poller' # poller => cookies' = cookies /\ cookiesFile' = cookiesFile
    /\ \A h \in Handlers :
         (handlers'[h].pc = "done" /\ handlers[h].pc # "done"
            /\ handlers'[h].status \in {400, 500}) =>
           cookies' = cookies /\ cookiesFile' = cookiesFile

\* C25: the jar and the cookie file change only in the merge of a response
\* that was received in full; no step of the poller changes them, and
\* neither does a request that ends in 400 or, after a failed send or a
\* failed read of the body, in 500.
C25_OnlyMergeChangesJar == [][C25_Step]_vars

\* A merge has filled the jar, the poller is in the middle of a cycle, one
\* request was refused with 400 and another lost its body after headers
\* that set a cookie, which is not in the jar.
C25_Witness ==
    \E h, g \in Handlers :
        /\ cookies # <<>>
        /\ NamesOf(cookies) = {<<"a">>}
        /\ poller.pc = "fetch" /\ poller.page > 1
        /\ handlers[h].pc = "done" /\ handlers[h].status = 400
        /\ handlers[g].pc = "done" /\ handlers[g].body = "Body error: err"

\* What C26 asks of a single step.
C26_Step ==
    /\ lock = Unbuilt =>
          /\ ENABLED NewProxyState
          /\ lock' = Unlocked
          /\ cookiesFile.state = "valid" => cookies' = cookiesFile.content
          /\ cookiesFile.state \in {"absent", "unreadable", "corrupt"} =>
                 cookies' = <<>>
          /\ cookiesFile' = cookiesFile
    /\ lock = Unlocked =>
          \A h \in Handlers :
              handlers[h].pc = "idle" =>
                  ENABLED (\E path \in MixedPaths :
                              ProxyRequest(h, path, <<>>))

\* C26: building the proxy state takes the jar of the cookie file when the
\* file is there and valid, and an empty jar when the file is absent,
\* cannot be read or does not deserialize; in each case the state is built
\* and requests are served.
C26_LoadFailsSoft == [][C26_Step]_vars

\* The state was built from a file that does not deserialize, or cannot be
\* read, and a request to the gated domain has gone out without cookies.
C26_Witness ==
    \E h \in Handlers :
        /\ cookiesFile.state \in {"corrupt", "unreadable"}
        /\ lock = Unlocked
        /\ cookies = <<>>
        /\ handlers[h].pc = "sent"
        /\ handlers[h].request.headers = <<>>

\* What C28 asks of a single step.
C28_Step ==
    /\ lock = Unlocked => cookies' = cookies /\ cookiesFile' = cookiesFile
    /\ \A h \in Handlers :
         lock = h =>
           /\ handlers[h].pc = "merging"
           /\ cookies' # cookies =>
                 lock' = h /\ handlers[h].new_cookies # <<>>
           /\ cookiesFile' # cookiesFile =>
                 /\ lock' = Unlocked
                 /\ handlers[h].new_cookies # <<>>
                 /\ cookiesFile' \in {ValidFile(cookies'), CorruptFile}
           /\ (lock' = Unlocked /\ handlers[h].new_cookies # <<>>) =>
                 \/ cookiesFile' = ValidFile(cookies')
                 \/ cookiesFile' \in {cookiesFile, CorruptFile}
           /\ (lock' = Unlocked /\ handlers[h].new_cookies = <<>>
                  /\ cookiesFile = ValidFile(cookies)) =>
                 cookiesFile' = ValidFile(cookies')

\* C28: the jar changes only inside a merge, which writes it before it lets
\* the mutex go; a write that succeeds leaves in the file the jar as it is,
\* cookie for cookie and in its order, a write that fails leaves the old
\* file or a broken one, and outside a merge neither the jar nor the file
\* changes: after a write that succeeded, and with no merge in progress,
\* the file holds the jar.
C28_FileFollowsJar == [][C28_Step]_vars

\* Both handlers have merged the cookies of their responses, one after the
\* other, and the file holds the jar of two names that came of it.
C28_Witness ==
    /\ lock = Unlocked
    /\ Cardinality(NamesOf(cookies)) >= 2
    /\ cookiesFile = ValidFile(cookies)
    /\ \A h \in Handlers :
          handlers[h].pc = "done" /\ handlers[h].body = "body_bytes"

\* What C30 asks of a single step.
C30_Step ==
    /\ Len(cookies) <= Len(cookies')
    /\ \A i \in 1..Len(cookies) : cookies'[i].name = cookies[i].name
    /\ \A h \in Handlers :
         (MergeTurn(h)
            /\ handlers[h].new_cookies[handlers[h].next].value = <<>>) =>
           LET name == handlers[h].new_cookies[handlers[h].next].name
           IN  /\ ValuesUnder(cookies', name) = << <<>> >>
               /\ name \in NamesOf(cookies) => Len(cookies') = Len(cookies)
    /\ \A h \in Handlers :
         (SendsRequest(h) /\ Domain(handlers'[h].target_url) = GatedDomain) =>
           \A i \in 1..Len(cookies) :
               CarriesPair(handlers'[h].request.headers,
                           cookies[i].name, cookies[i].value)
    /\ PollBuilds =>
         \A i \in 1..Len(cookies) :
             CarriesPair(poller'.request, cookies[i].name, cookies[i].value)

\* C30: no step takes an entry out of the jar or moves one: the jar gets no
\* shorter and every place keeps its name. A Set-Cookie header without a
\* value and with Max-Age=0 leaves the entry of its name in the jar with
\* the empty value, and the entry goes out, as name=, in the Cookie header
\* of every later request of the proxy to the gated domain and of the
\* poller.
C30_JarNeverShrinks == [][C30_Step]_vars

\* The cookie a was set and then expired by the origin; it is in the jar
\* with no value, and a request of the proxy and one of the poller carry it.
C30_Witness ==
    \E h \in Handlers :
        /\ Pairs(cookies) = {<< <<"a">>, <<>> >>}
        /\ handlers[h].pc = "sent"
        /\ handlers[h].request.headers = << <<"cookie", <<"a", "=">> >> >>
        /\ poller.pc = "fetch"
        /\ CarriesPair(poller.request, <<"a">>, <<>>)

RECURSIVE Rendered(_)
\* The entries of a cookie list written out one after the other: name, "=",
\* value, and "; " before every entry but the first.
Rendered(cs) ==
    IF cs = <<>> THEN <<>>
    ELSE LET init == SubSeq(cs, 1, Len(cs) - 1)
             last == cs[Len(cs)]
         IN  (IF init = <<>> THEN <<>> ELSE Rendered(init) \o <<";", " ">>)
             \o last.name \o <<"=">> \o last.value

\* What C15 asks of a single step.
C15_Step ==
    /\ \A h \in Handlers :
         (SendsRequest(h) /\ Domain(handlers'[h].target_url) = GatedDomain) =>
           handlers'[h].request.headers =
               IF cookies = <<>>
               THEN CopyHeaders(handlers'[h].req_headers)
               ELSE Append(CopyHeaders(handlers'[h].req_headers),
                           <<"cookie", Rendered(cookies)>>)
    /\ PollBuilds =>
         poller'.request =
             IF cookies = <<>>
             THEN << <<"user-agent", UserAgent>> >>
             ELSE << <<"user-agent", UserAgent>>,
                     <<"cookie", Rendered(cookies)>> >>
    /\ CookieStr(<<[name |-> <<"a">>, value |-> <<"1">>],
                   [name |-> <<"b">>, value |-> <<"2">>]>>)
         = <<"a", "=", "1", ";", " ", "b", "=", "2">>
    /\ CookieStr(<<>>) = <<>>

\* C15: the proxy, for the gated domain, and the poller add to a request one
\* Cookie header whose value is the entries of the jar as name=value joined
\* by "; " in the order of the jar, and add none when the jar is empty; the
\* jar a=1, b=2 gives "a=1; b=2" and the empty jar gives the empty text.
C15_HeaderRendering == [][C15_Step]_vars

\* A request of the proxy went out while the jar was empty, with the headers
\* of the caller and none from the jar; since then a=2 and b=1 were merged
\* and the poller has built a page request with "a=2; b=1".
C15_Witness ==
    /\ \E h \in Handlers :
         /\ handlers[h].pc = "sent"
         /\ handlers[h].req_headers # <<>>
         /\ handlers[h].request.headers = CopyHeaders(handlers[h].req_headers)
    /\ poller.pc = "fetch"
    /\ poller.request =
         << <<"user-agent", UserAgent>>,
            <<"cookie", <<"a", "=", "2", ";", " ", "b", "=", "1">> >> >>

\* What C29 asks of a single step.
C29_Step ==
    /\ poller.pc = "build" => poller.request = <<>>
    /\ PollBuilds =>
         /\ poller'.page = poller.page
         /\ poller'.request = PollRequest(CookieStr(cookies))
         /\ \A i \in 1..Len(cookies) :
               CarriesPair(poller'.request, cookies[i].name, cookies[i].value)
    /\ (poller.pc = "fetch" /\ poller'.pc = "fetch") =>
         poller'.request = poller.request
    /\ (poller.pc = "fetch" /\ poller'.pc # "fetch") =>
         /\ poller'.request = <<>>
         /\ poller.page < MaxPage =>
               poller'.pc = "build" /\ poller'.page = poller.page + 1

\* C29: the request of every page is built from the jar as it is at that
\* moment, so that a merge that ended before the build of a page shows in
\* the request of that page; a request that is built stays as it is until
\* it is answered, whatever is merged meanwhile; and no request is carried
\* over to the next page.
C29_HeaderPerPage == [][C29_Step]_vars

\* The request of a later page of a cycle carries a=1, which a merge put in
\* the jar that was empty at start, and it is still to be answered while
\* another merge has ended that made the jar a=2, b=1.
C29_Witness ==
    /\ poller.pc = "fetch"
    /\ poller.page > 1
    /\ CarriesPair(poller.request, <<"a">>, <<"1">>)
    /\ lock = Unlocked
    /\ Pairs(cookies) = {<< <<"a">>, <<"2">> >>, << <<"b">>, <<"1">> >>}

\* ------------------------------------------------------------------------
\* Properties of the poller and of the ledger
\* ------------------------------------------------------------------------

\* How many records of a list carry the id.
CountId(txs, id) ==
    Cardinality({i \in 1..Len(txs) : txs[i].transaction_id = id})

\* The list as load_transactions returned it at the top of the cycle.
LoadedTx ==
    IF poller.pc = "sleep"
    THEN SubSeq(poller.saved_tx, 1,
                Len(poller.saved_tx) - Len(poller.new_transactions))
    ELSE poller.saved_tx

\* The text an id of a page is compared by: a string as it is, an integer
\* in decimal.
IdText(val) == IF val.t = "string" THEN val.s ELSE IntToString(val.n)

\* What C2 asks of a single step.
C2_Step == IdsOf(ledgerFile.content) \subseteq IdsOf(ledgerFile'.content)

\* C2, as claimed: an id that is in the ledger file is in it after every
\* later step of the poller.
C2_NeverLosesRecord == [][C2_Step]_vars

\* C3: the ledger file never holds two records with the same id.
C3_UniqueIds ==
    \A i, j \in 1..Len(ledgerFile.content) :
        ledgerFile.content[i].transaction_id =
            ledgerFile.content[j].transaction_id => i = j

\* A cycle that saw the id 7 as text and as a number, and saw an id again
\* on a later page, has written a ledger of two or more records.
C3_Witness ==
    /\ poller.pc = "sleep"
    /\ poller.new_transactions # <<>>
    /\ poller.seen_again
    /\ {JsonString(<<"7">>), JsonInt(7)} \subseteq poller.page_ids
    /\ ledgerFile = ValidFile(poller.saved_tx)
    /\ Len(ledgerFile.content) >= 2

\* C4: at every point of a cycle, an id a decoded page carried has no new
\* record when the loaded ledger holds it and exactly one otherwise; after
\* the cycle the ledger holds exactly one record of a newly found id.
C4_DedupInCycle ==
    \A val \in poller.page_ids :
          IF IdText(val) \in IdsOf(LoadedTx)
          THEN CountId(poller.new_transactions, IdText(val)) = 0
          ELSE /\ CountId(poller.new_transactions, IdText(val)) = 1
               /\ poller.pc = "sleep" =>
                    CountId(poller.saved_tx, IdText(val)) = 1

\* A cycle has ended that met the number 7 with "7" in the loaded ledger,
\* and the number 12 for the first time and again on a later page.
C4_Witness ==
    /\ poller.pc = "sleep"
    /\ JsonInt(7) \in poller.page_ids
    /\ <<"7">> \in IdsOf(LoadedTx)
    /\ JsonInt(12) \in poller.page_ids
    /\ <<"1", "2">> \notin IdsOf(LoadedTx)
    /\ IdsOf(poller.new_transactions) = {<<"1", "2">>}
    /\ poller.seen_again

\* A list opens with another.
IsPrefix(a, b) == Len(a) <= Len(b) /\ SubSeq(b, 1, Len(a)) = a

\* What C17 asks of a single step.
C17_Step ==
    /\ poller.pc = "fetch" =>
         /\ IF poller.page < MaxPage
            THEN poller'.pc = "build" /\ poller'.page = poller.page + 1
            ELSE poller'.pc = "save" /\ poller'.page = poller.page
         /\ IsPrefix(poller.new_transactions, poller'.new_transactions)
         /\ poller.saved_ids \subseteq poller'.saved_ids
         /\ poller'.saved_tx = poller.saved_tx
         /\ poller'.failed =>
              \A val \in poller'.page_ids :
                  IdText(val) \in IdsOf(poller'.saved_tx)
                                    \cup IdsOf(poller'.new_transactions)
    /\ poller.pc = "build" =>
         poller'.pc = "fetch" /\ poller'.page = poller.page
    /\ poller'.pc = "save" => poller'.page = MaxPage

\* C17: whatever comes back for a page, a send error, a status that is no
\* success, a body that is no JSON or one without an array included, the
\* cycle goes on to the request of the next page and after page 10 to the
\* save; the records found so far are kept, and in a cycle in which a page
\* has failed every id a decoded page carried is in the loaded ledger or
\* among the new records.
C17_FailureStaysOnPage == [][C17_Step]_vars

\* A cycle in which a page failed and a later page brought a new record has
\* gone through page 10 and written the ledger with that record.
C17_Witness ==
    /\ poller.pc = "sleep"
    /\ poller.page = MaxPage
    /\ poller.failed
    /\ poller.took_after
    /\ poller.new_transactions # <<>>
    /\ ledgerFile = ValidFile(poller.saved_tx)

\* What C18 asks of a single step.
C18_Step ==
    /\ (poller.pc = "save" /\ poller.new_transactions = <<>>) =>
         /\ ledgerFile' = ledgerFile
         /\ poller'.pc = "sleep"
    /\ ledgerFile' # ledgerFile =>
         /\ poller.pc = "save"
         /\ poller.new_transactions # <<>>

\* C18: the ledger file changes only in the save of a cycle that found a
\* new record; the save of a cycle that found none leaves the file as it is.
C18_NoWriteWithoutNew == [][C18_Step]_vars

\* A cycle has gone through its ten pages and ended without a new record
\* while there is no ledger file, so that a write would show.
C18_Witness ==
    /\ poller.pc = "sleep"
    /\ poller.page = MaxPage
    /\ poller.new_transactions = <<>>
    /\ ledgerFile = AbsentFile

\* C19: the poller is at the load of the ledger again and again; every cycle
\* that has loaded the ledger comes to its sleep, and every sleep is followed
\* by the load of the next cycle, whatever the pages answer and whether or
\* not the write of the ledger fails.
C19_PollerNeverStops ==
    /\ []<>(poller.pc = "load")
    /\ (poller.pc = "build" /\ poller.page = 1) ~> (poller.pc = "sleep")
    /\ (poller.pc = "sleep") ~> (poller.pc = "load")

\* After a cycle whose write of the ledger broke off part-way, the next
\* cycle has loaded what is left of it and is at page 1.
C19_Witness ==
    /\ poller.pc = "build"
    /\ poller.page = 1
    /\ poller.saved_tx = <<>>
    /\ ledgerFile = CorruptFile

\* The cycle that has just ended held a ledger in memory that is not what
\* the file holds: its write failed.
WriteFailedLastCycle ==
    /\ poller.pc = "load"
    /\ poller.last_tx # <<>>
    /\ ledgerFile # ValidFile(poller.last_tx)

\* What C23 asks of a single step.
C23_Step ==
    (WriteFailedLastCycle /\ poller'.pc = "build") =>
        poller'.saved_tx = poller.last_tx

\* C23, as claimed: after a cycle whose write failed, the next cycle works
\* on the ledger that cycle held in memory, its new records included.
C23_MemoryOutlivesFailedWrite == [][C23_Step]_vars

\* The records the poller, as it stands before the answer to a page, takes
\* from a decoded body.
TakenFrom(body) ==
    LET arr == TransArr(body)
    IN  IF arr.some
        THEN IngestPage(arr.items, 1,
               [saved_ids |-> poller.saved_ids,
                new_transactions |-> poller.new_transactions]).new_transactions
        ELSE poller.new_transactions

\* The bodies that carry the array a under one of the two paths, and no
\* array under the other.
BodiesCarrying(a) ==
    { [data_transactions |-> JsonArray(a), response_payouts_data |-> o] :
          o \in {JsonAbsent, JsonNotArray} }
    \cup
    { [data_transactions |-> o, response_payouts_data |-> JsonArray(a)] :
          o \in {JsonAbsent, JsonNotArray} }

\* The bodies that carry an array under neither path.
BodiesOfNeitherShape ==
    { [data_transactions |-> o1, response_payouts_data |-> o2] :
          o1, o2 \in {JsonAbsent, JsonNotArray} }

\* C24, as claimed: whichever of the two paths carries the elements of a
\* page, the poller takes the same records from it, and it takes none from
\* a body of neither shape.
C24_EitherPathSameRecords ==
    poller.pc = "fetch" =>
        /\ \A a \in PageArrays :
               \A b1, b2 \in BodiesCarrying(a) : TakenFrom(b1) = TakenFrom(b2)
        /\ \A b \in BodiesOfNeitherShape :
               TakenFrom(b) = poller.new_transactions

\* The places of a page array that hold an id for the first time: an id
\* that is not known and that no earlier place of the array holds.
FirstPlaces(a, known) ==
    {i \in 1..Len(a) :
        /\ extract_id(a[i].id).some
        /\ extract_id(a[i].id).v \notin known
        /\ \A j \in 1..(i - 1) : extract_id(a[j].id) # extract_id(a[i].id)}

\* The records of those places, in the order of the array.
FirstRecords(a, known) ==
    LET places == SelectSeq([i \in 1..Len(a) |-> i],
                            LAMBDA i : i \in FirstPlaces(a, known))
    IN  [k \in 1..Len(places) |->
            [transaction_id |-> extract_id(a[places[k]].id).v,
             status |-> a[places[k]].status]]

\* The cycle works on the list the file holds: its load succeeded.
LoadedFromFile ==
    ledgerFile.state = "valid" /\ poller.saved_tx = ledgerFile.content

\* What C27 asks of a single step.
C27_Step ==
    /\ poller.pc = "load" => poller'.saved_tx \in {ledgerFile.content, <<>>}
    /\ poller.pc \in {"build", "fetch"} => poller'.saved_tx = poller.saved_tx
    /\ poller.pc = "fetch" =>
         \A a \in PageArrays :
             TakenFrom([data_transactions |-> JsonArray(a),
                        response_payouts_data |-> JsonAbsent])
               = poller.new_transactions \o FirstRecords(a, poller.saved_ids)
    /\ (poller.pc = "save" /\ LoadedFromFile
          /\ ledgerFile' # ledgerFile /\ ledgerFile'.state = "valid") =>
         /\ ledgerFile'.content =
                ledgerFile.content \o poller.new_transactions
         /\ poller.new_transactions # <<>>
         /\ IdsOf(poller.new_transactions) \cap IdsOf(ledgerFile.content) = {}
    /\ ledgerFile' # ledgerFile =>
         /\ poller.pc = "save" /\ poller.page = MaxPage
         /\ poller'.pc = "sleep"
    /\ poller.pc = "sleep" => poller'.pc = "load" /\ ledgerFile' = ledgerFile

\* C27: a cycle that loaded the ledger, found new records and wrote the file
\* leaves in it the loaded list, as it was and in its order, followed by
\* the new records in the order the pages and their elements gave them; a
\* record whose id a page carries again is left as it is; and the file
\* changes only in the one save after page 10.
C27_AppendOnlyInOrder == [][C27_Step]_vars

\* A cycle has loaded the ledger with "7" as new, met the number 7 as paid
\* and the number 12, and has written the loaded record followed by 12.
C27_Witness ==
    /\ poller.pc = "sleep"
    /\ JsonInt(7) \in poller.page_ids
    /\ JsonInt(12) \in poller.page_ids
    /\ ledgerFile =
          ValidFile(<<[transaction_id |-> <<"7">>, status |-> "new"],
                      [transaction_id |-> <<"1", "2">>, status |-> "new"]>>)
    /\ poller.new_transactions =
          <<[transaction_id |-> <<"1", "2">>, status |-> "new"]>>

====
